---- MODULE Spec2Model ----
(***************************************************************************)
(* Model of MetalDiff (DiffusionAlloys.py) and DiffGas_AB                  *)
(* (DiffusionGases.py).                                                    *)
(*                                                                         *)
(* Numbers.  The tables hold decimal literals; the model keeps each        *)
(* literal exactly, as an integer in a fixed unit:                         *)
(*    M (alloys)   1e-5 g/mol      D0       1e-10 m^2/s                    *)
(*    Ea           0.01 kJ/mol     R        0.001 J/mol-K                  *)
(*    M (gases)    1e-6 g/mol      SIGMA_v  0.01 cm^3     K  1e-7          *)
(* Temperatures and pressures are integers (K, Pa).                        *)
(*                                                                         *)
(* A returned float is the result of a fixed chain of IEEE-754 operations  *)
(* on table literals and arguments, so it is represented by the operands   *)
(* of that chain (a record naming the branch and the literals used): two   *)
(* equal records are bit-identical floats.  What the float arithmetic can  *)
(* raise is modelled by value: a division by a zero float raises           *)
(* ZeroDivisionError and math.exp raises OverflowError above its limit.    *)
(* Python 3 arithmetic is assumed (1/2 and 1/3 are true divisions).        *)
(***************************************************************************)
EXTENDS Integers, Sequences, FiniteSets, TLC

VARIABLES
    tabs,      \* the reference tables the two functions read
    frames,    \* per caller: the call in progress (arguments, position, outcome)
    console    \* lines printed to standard output, in order

vars == <<tabs, frames, console>>

(***************************************************************************)
(* Bounds of the model.                                                    *)
(***************************************************************************)
NumCalls == 2

Callers == 1..NumCalls

\* The caller of the sequential specification.
SeqCallers == {1}

(***************************************************************************)
(* Reference tables.                                                       *)
(***************************************************************************)
R == 8314

K == 101325

\* math.exp(x) raises OverflowError for x > 709.78... (in 0.01 units).
EXP_MAX == 70978

\* Mutant of MetalDiffTables: the Ea entry of ('OPTIFER-IVb', 'T') is missing.
MetalDiffTables_NoEaT ==
    [ M |-> [H |-> 100794, D |-> 201410, T |-> 301605, He |-> 400260],
      D0 |-> ( "SS304"       :> [H |-> 12200] @@
               "SS316"       :> [H |-> 12400, D |-> 13800] @@
               "Alpha-Fe"    :> [H |-> 387] @@
               "75Pd-25Ag"   :> [H |-> 3070, D |-> 1870] @@
               "EUROFER97"   :> [H |-> 4570, D |-> 1500] @@
               "OPTIFER-IVb" :> [H |-> 549, D |-> 461, T |-> 417] ),
      Ea |-> ( "SS304"       :> [H |-> 5485] @@
               "SS316"       :> [H |-> 5510, D |-> 5750] @@
               "Alpha-Fe"    :> [H |-> 450] @@
               "75Pd-25Ag"   :> [H |-> 2590, D |-> 2469] @@
               "EUROFER97"   :> [H |-> 2230, D |-> 1450] @@
               "OPTIFER-IVb" :> [H |-> 1060, D |-> 1130] ),
      T_min |-> ( "SS304" :> 645 @@ "SS316" :> 623 @@ "Alpha-Fe" :> 573 @@
                  "75Pd-25Ag" :> 323 @@ "EUROFER97" :> 373 @@
                  "OPTIFER-IVb" :> 423 ),
      T_max |-> ( "SS304" :> 945 @@ "SS316" :> 1123 @@ "Alpha-Fe" :> 873 @@
                  "75Pd-25Ag" :> 773 @@ "EUROFER97" :> 723 @@
                  "OPTIFER-IVb" :> 892 ) ]

MetalDiffTables ==
    [ M |-> [H |-> 100794, D |-> 201410, T |-> 301605, He |-> 400260],
      D0 |-> ( "SS304"       :> [H |-> 12200] @@
               "SS316"       :> [H |-> 12400, D |-> 13800] @@
               "Alpha-Fe"    :> [H |-> 387] @@
               "75Pd-25Ag"   :> [H |-> 3070, D |-> 1870] @@
               "EUROFER97"   :> [H |-> 4570, D |-> 1500] @@
               "OPTIFER-IVb" :> [H |-> 549, D |-> 461, T |-> 417] ),
      Ea |-> ( "SS304"       :> [H |-> 5485] @@
               "SS316"       :> [H |-> 5510, D |-> 5750] @@
               "Alpha-Fe"    :> [H |-> 450] @@
               "75Pd-25Ag"   :> [H |-> 2590, D |-> 2469] @@
               "EUROFER97"   :> [H |-> 2230, D |-> 1450] @@
               "OPTIFER-IVb" :> [H |-> 1060, D |-> 1130, T |-> 1200] ),
      T_min |-> ( "SS304" :> 645 @@ "SS316" :> 623 @@ "Alpha-Fe" :> 573 @@
                  "75Pd-25Ag" :> 323 @@ "EUROFER97" :> 373 @@
                  "OPTIFER-IVb" :> 423 ),
      T_max |-> ( "SS304" :> 945 @@ "SS316" :> 1123 @@ "Alpha-Fe" :> 873 @@
                  "75Pd-25Ag" :> 773 @@ "EUROFER97" :> 723 @@
                  "OPTIFER-IVb" :> 892 ) ]

DiffGasTables ==
    [ M |-> [ H2 |-> 2015930, D2 |-> 4028204, He |-> 4002598,
              N2 |-> 28014030, H2O |-> 18015340, Kr |-> 83800000,
              Xe |-> 131300000, Air |-> 28963000, Ar |-> 39948000,
              SF6 |-> 146050000, O2 |-> 32000000, CO2 |-> 44010000,
              CO |-> 28020000, N2O |-> 44010000, NH3 |-> 17030000,
              SO2 |-> 64063800, Cl2 |-> 70900000, Br2 |-> 159808000 ],
      SIGMA_v |-> [ H2 |-> 612, D2 |-> 684, He |-> 267, N2 |-> 1850,
                    H2O |-> 1310, Kr |-> 2450, Xe |-> 3270, Air |-> 1970,
                    Ar |-> 1620, SF6 |-> 7130, O2 |-> 1630, CO2 |-> 2690,
                    CO |-> 1800, N2O |-> 3590, NH3 |-> 2070, SO2 |-> 4180,
                    Cl2 |-> 3840, Br2 |-> 6900 ] ]

(***************************************************************************)
(* Outcomes of a call.                                                     *)
(***************************************************************************)
NoVal == [via |-> "none"]

NoOutcome == [kind |-> "none", err |-> "", msg |-> "", val |-> NoVal]

Return(v) == [kind |-> "return", err |-> "", msg |-> "", val |-> v]

Raise(e, m) == [kind |-> "raise", err |-> e, msg |-> m, val |-> NoVal]

UnsupportedAlloy == Raise("KeyError", "Unsuported Alloy selected")

UnsupportedIsotope == Raise("KeyError", "Unsuported Isotope selected")

UnsupportedGas == Raise("KeyError", "Unsuported gas selected")

(***************************************************************************)
(* Float arithmetic of the Arrhenius factor exp(-Ea*1000/(R*T)).           *)
(***************************************************************************)
Abs(n) == IF n < 0 THEN -n ELSE n

\* The exponent -Ea*1000/(R*T) in units of 0.01, rounded toward zero; ea in
\* 0.01 kJ/mol and R in 0.001 J/mol-K, so the quotient is ea*10000/(R*T).
ExpArg(ea, T) ==
    LET num == ea * 10000
        den == R * Abs(T)
        q   == num \div den
        r   == ((num % den) * 100) \div den
        mag == q * 100 + r
    IN  IF T > 0 THEN -mag ELSE mag

\* D0*exp(-Ea*1000/(R*T)): the division raises on R*T = 0.0, exp raises
\* above its limit; an underflow of exp is 0.0 and raises nothing.
Arrhenius(d0, ea, T) ==
    IF R * T = 0 THEN Raise("ZeroDivisionError", "float division by zero")
    ELSE IF ExpArg(ea, T) > EXP_MAX THEN Raise("OverflowError", "math range error")
    ELSE Return([via |-> "direct", d0 |-> d0, ea |-> ea, T |-> T])

(***************************************************************************)
(* MetalDiff, step by step.                                                *)
(***************************************************************************)
\* Mutant of OutOfRange: the bounds themselves count as out of range.
OutOfRange_Inclusive(A, T) ==
    \/ tabs.metal.T_min[A] >= T
    \/ tabs.metal.T_max[A] <= T

\* (T_min[A] > T) or (T_max[A] < T); `or` evaluates T_max[A] only when
\* T_min[A] > T is false.
OutOfRange(A, T) ==
    \/ tabs.metal.T_min[A] > T
    \/ tabs.metal.T_max[A] < T

\* Mutant of RangeCheck: the KeyError of a missing alloy is swallowed.
RangeCheck_Swallow(A, T, W) ==
    LET t == tabs.metal IN
    IF A \notin DOMAIN t.T_min \/ A \notin DOMAIN t.T_max THEN "ok"
    ELSE IF OutOfRange(A, T) /\ W THEN "warn"
    ELSE "ok"

\* Mutant of RangeCheck: an out-of-range temperature is an error when W is set.
RangeCheck_WarningRaises(A, T, W) ==
    LET t == tabs.metal IN
    IF A \notin DOMAIN t.T_min \/ A \notin DOMAIN t.T_max THEN "raise"
    ELSE IF OutOfRange(A, T) /\ W THEN "raise"
    ELSE "ok"

\* try: if ((T_min[A] > T) or (T_max[A] < T)) and (W): print(...)
\* except KeyError: raise KeyError('Unsuported Alloy selected')
\* The result is "raise", "warn" (the line is printed) or "ok".  A KeyError
\* comes from T_min[A], from T_max[A] in the condition (evaluated when
\* T_min[A] > T is false) or from T_max[A] in the printed line.
RangeCheck(A, T, W) ==
    LET t == tabs.metal IN
    IF A \notin DOMAIN t.T_min THEN "raise"
    ELSE IF t.T_min[A] <= T /\ A \notin DOMAIN t.T_max THEN "raise"
    ELSE IF OutOfRange(A, T) /\ W
         THEN IF A \in DOMAIN t.T_max THEN "warn" ELSE "raise"
    ELSE "ok"

\* The line the warning prints.
WarningLine(c, A) ==
    [caller |-> c, lo |-> tabs.metal.T_min[A], hi |-> tabs.metal.T_max[A]]

\* D0[A][Q]*exp(-Ea[A][Q]*1000/(R*T)), with the KeyError of a missing key.
DirectEval(A, Q, T) ==
    LET t == tabs.metal IN
    IF A \notin DOMAIN t.D0 \/ Q \notin DOMAIN t.D0[A]
        THEN Raise("KeyError", Q)
    ELSE IF A \notin DOMAIN t.Ea \/ Q \notin DOMAIN t.Ea[A]
        THEN Raise("KeyError", Q)
    ELSE Arrhenius(t.D0[A][Q], t.Ea[A][Q], T)

\* D_H*sqrt(M['H']/M[Q]): the operands of the product.
Graham(D_H, mH, mQ) ==
    [via |-> "graham", D_H |-> D_H, mH |-> mH, mQ |-> mQ]

\* Mutant of FallbackEval: the mass ratio is inverted, sqrt(M[Q]/M['H']).
FallbackEval_InvertedRatio(A, Q, T) ==
    LET t == tabs.metal
        h == DirectEval(A, "H", T)
    IN  IF h.kind = "raise"
            THEN IF h.err = "KeyError" THEN UnsupportedIsotope ELSE h
        ELSE IF "H" \notin DOMAIN t.M \/ Q \notin DOMAIN t.M
            THEN UnsupportedIsotope
        ELSE Return(Graham(h.val, t.M[Q], t.M["H"]))

\* Mutant of FallbackEval: the KeyError of M[Q] is passed on as it is.
FallbackEval_RawKeyError(A, Q, T) ==
    LET t == tabs.metal
        h == DirectEval(A, "H", T)
    IN  IF h.kind = "raise" THEN h
        ELSE IF "H" \notin DOMAIN t.M \/ Q \notin DOMAIN t.M
            THEN Raise("KeyError", Q)
        ELSE Return(Graham(h.val, t.M["H"], t.M[Q]))

\* try: D_H = D0[A]['H']*exp(-Ea[A]['H']*1000/(R*T))
\*      return D_H*sqrt(M['H']/M[Q])
\* except KeyError: raise KeyError('Unsuported Isotope selected')
\* Only a KeyError is converted; what the arithmetic raises is passed on.
FallbackEval(A, Q, T) ==
    LET t == tabs.metal
        h == DirectEval(A, "H", T)
    IN  IF h.kind = "raise"
            THEN IF h.err = "KeyError" THEN UnsupportedIsotope ELSE h
        ELSE IF "H" \notin DOMAIN t.M \/ Q \notin DOMAIN t.M
            THEN UnsupportedIsotope
        ELSE Return(Graham(h.val, t.M["H"], t.M[Q]))

\* The whole call, made alone: its outcome and whether the warning is printed.
MetalDiff(A, Q, T, W) ==
    LET r == RangeCheck(A, T, W)
        d == DirectEval(A, Q, T)
    IN  IF r = "raise" THEN [out |-> UnsupportedAlloy, warned |-> FALSE]
        ELSE [ out |-> IF d.kind = "return" THEN d ELSE FallbackEval(A, Q, T),
               warned |-> r = "warn" ]

(***************************************************************************)
(* DiffGas_AB.                                                             *)
(***************************************************************************)
\* x + y on floats is commutative: the sum is a function of the unordered
\* pair of its operands.
FAdd(x, y) == IF x <= y THEN <<x, y>> ELSE <<y, x>>

\* Mutant of DiffGas_AB: SIGMA_v[A] is used for both species.
DiffGas_AB_SigmaA(A, B, T, P) ==
    LET g == tabs.gas IN
    IF A \notin DOMAIN g.M \/ B \notin DOMAIN g.M THEN UnsupportedGas
    ELSE IF A \notin DOMAIN g.SIGMA_v \/ B \notin DOMAIN g.SIGMA_v THEN UnsupportedGas
    ELSE IF P = 0 THEN Raise("ZeroDivisionError", "float division by zero")
    ELSE Return([ via |-> "fuller", K |-> K, T |-> T, P |-> P,
                  invM |-> FAdd(g.M[A], g.M[B]),
                  cbrt |-> FAdd(g.SIGMA_v[A], g.SIGMA_v[A]) ])

\* Mutant of DiffGas_AB: only the KeyError of the first species is converted.
DiffGas_AB_RawKeyErrorB(A, B, T, P) ==
    LET g == tabs.gas IN
    IF A \notin DOMAIN g.M \/ A \notin DOMAIN g.SIGMA_v THEN UnsupportedGas
    ELSE IF B \notin DOMAIN g.M \/ B \notin DOMAIN g.SIGMA_v THEN Raise("KeyError", B)
    ELSE IF P = 0 THEN Raise("ZeroDivisionError", "float division by zero")
    ELSE Return([ via |-> "fuller", K |-> K, T |-> T, P |-> P,
                  invM |-> FAdd(g.M[A], g.M[B]),
                  cbrt |-> FAdd(g.SIGMA_v[A], g.SIGMA_v[B]) ])

\* K*(T**1.75*(1/M[A] + 1/M[B])**(1/2)) / (P*(SIGMA_v[A]**(1/3) + SIGMA_v[B]**(1/3))**2)
\* The lookups come before the division, so a missing key is reported even
\* when the divisor is 0.0.
DiffGas_AB(A, B, T, P) ==
    LET g == tabs.gas IN
    IF A \notin DOMAIN g.M \/ B \notin DOMAIN g.M THEN UnsupportedGas
    ELSE IF A \notin DOMAIN g.SIGMA_v \/ B \notin DOMAIN g.SIGMA_v THEN UnsupportedGas
    ELSE IF P = 0 THEN Raise("ZeroDivisionError", "float division by zero")
    ELSE Return([ via |-> "fuller", K |-> K, T |-> T, P |-> P,
                  invM |-> FAdd(g.M[A], g.M[B]),
                  cbrt |-> FAdd(g.SIGMA_v[A], g.SIGMA_v[B]) ])

(***************************************************************************)
(* Calls.                                                                  *)
(***************************************************************************)
IdleFrame ==
    [ fn |-> "none", A |-> "", Q |-> "", B |-> "", T |-> 0, P |-> 0,
      W |-> FALSE, pc |-> "idle", out |-> NoOutcome, log |-> <<>> ]

Init ==
    /\ tabs = [metal |-> MetalDiffTables, gas |-> DiffGasTables]
    /\ frames = [c \in Callers |-> IdleFrame]
    /\ console = <<>>

CallMetalDiff(c, A, Q, T, W) ==
    /\ frames[c].pc = "idle"
    /\ frames' = [frames EXCEPT ![c] =
                    [IdleFrame EXCEPT !.fn = "MetalDiff", !.A = A, !.Q = Q,
                                      !.T = T, !.W = W, !.pc = "range"]]
    /\ UNCHANGED <<tabs, console>>

RangeStep(c) ==
    LET f == frames[c]
        r == RangeCheck(f.A, f.T, f.W)
    IN  /\ f.pc = "range"
        /\ \/ /\ r = "raise"
              /\ frames' = [frames EXCEPT ![c].pc = "done",
                                          ![c].out = UnsupportedAlloy,
                                          ![c].log = Append(f.log, "range")]
              /\ console' = console
           \/ /\ r = "warn"
              /\ frames' = [frames EXCEPT ![c].pc = "direct",
                                          ![c].log = f.log \o <<"range", "warn">>]
              /\ console' = Append(console, WarningLine(c, f.A))
           \/ /\ r = "ok"
              /\ frames' = [frames EXCEPT ![c].pc = "direct",
                                          ![c].log = Append(f.log, "range")]
              /\ console' = console
        /\ UNCHANGED tabs

\* try: return D0[A][Q]*exp(...)   except: None
DirectStep(c) ==
    LET f == frames[c]
        d == DirectEval(f.A, f.Q, f.T)
    IN  /\ f.pc = "direct"
        /\ \/ /\ d.kind = "return"
              /\ frames' = [frames EXCEPT ![c].pc = "done", ![c].out = d,
                                          ![c].log = Append(f.log, "direct")]
           \/ /\ d.kind = "raise"
              /\ frames' = [frames EXCEPT ![c].pc = "fallback",
                                          ![c].log = Append(f.log, "direct")]
        /\ UNCHANGED <<tabs, console>>

\* Mutant of FallbackStep: the estimate is stored in the coefficient tables.
FallbackStep_Memo(c) ==
    LET f == frames[c]
        o == FallbackEval(f.A, f.Q, f.T)
    IN  /\ f.pc = "fallback"
        /\ frames' = [frames EXCEPT ![c].pc = "done", ![c].out = o,
                                    ![c].log = Append(f.log, "fallback")]
        /\ tabs' = IF o.kind = "return"
                     THEN [tabs EXCEPT !.metal.D0[f.A] = (f.Q :> 1) @@ @,
                                       !.metal.Ea[f.A] = (f.Q :> 1) @@ @]
                     ELSE tabs
        /\ UNCHANGED console

FallbackStep(c) ==
    LET f == frames[c] IN
    /\ f.pc = "fallback"
    /\ frames' = [frames EXCEPT ![c].pc = "done",
                                ![c].out = FallbackEval(f.A, f.Q, f.T),
                                ![c].log = Append(f.log, "fallback")]
    /\ UNCHANGED <<tabs, console>>

CallDiffGas(c, A, B, T, P) ==
    /\ frames[c].pc = "idle"
    /\ frames' = [frames EXCEPT ![c] =
                    [IdleFrame EXCEPT !.fn = "DiffGas_AB", !.A = A, !.B = B,
                                      !.T = T, !.P = P, !.pc = "fuller"]]
    /\ UNCHANGED <<tabs, console>>

GasStep(c) ==
    LET f == frames[c] IN
    /\ f.pc = "fuller"
    /\ frames' = [frames EXCEPT ![c].pc = "done",
                                ![c].out = DiffGas_AB(f.A, f.B, f.T, f.P),
                                ![c].log = Append(f.log, "fuller")]
    /\ UNCHANGED <<tabs, console>>

(***************************************************************************)
(* Arguments the callers pass.                                             *)
(***************************************************************************)
Alloys == DOMAIN MetalDiffTables.T_min \cup {"UnknownAlloy"}

Isotopes == {"H", "D", "T", "He", "X"}

\* Below, at and above each bound of the alloy's range, inside every range
\* (700), above most (1000), absolute zero and a negative temperature.
Temps(A) ==
    {-2, 0, 700, 1000} \cup
    ( IF A \in DOMAIN MetalDiffTables.T_min
        THEN { MetalDiffTables.T_min[A] - 1, MetalDiffTables.T_min[A],
               MetalDiffTables.T_max[A], MetalDiffTables.T_max[A] + 1 }
        ELSE {} )

Gases == {"H2", "Air", "N2O", "HO"}

GasTemps == {0, 298, 333}

Pressures == {0, 101325}

\* The calls of the concurrent specification: one per path through each
\* function.
ConcMetalCalls ==
    { <<"SS316", "H", 700, FALSE>>, <<"SS304", "He", 1000, TRUE>>,
      <<"SS304", "X", 1000, TRUE>>, <<"UnknownAlloy", "H", 500, TRUE>>,
      <<"OPTIFER-IVb", "T", -2, TRUE>>, <<"SS304", "H", 0, FALSE>> }

ConcGasCalls ==
    { <<"H2", "Air", 298, 101325>>, <<"Air", "H2", 298, 101325>>,
      <<"HO", "Air", 333, 101325>>, <<"H2", "Air", 298, 0>> }

(***************************************************************************)
(* Specifications.                                                         *)
(***************************************************************************)
\* One caller, every argument combination.
Next ==
    \E c \in SeqCallers :
        \/ \E A \in Alloys, Q \in Isotopes, W \in BOOLEAN :
               \E T \in Temps(A) : CallMetalDiff(c, A, Q, T, W)
        \/ RangeStep(c)
        \/ DirectStep(c)
        \/ FallbackStep(c)
        \/ \E A \in Gases, B \in Gases, T \in GasTemps, P \in Pressures :
               CallDiffGas(c, A, B, T, P)
        \/ GasStep(c)

Spec == Init /\ [][Next]_vars

\* NumCalls concurrent callers, their steps interleaved in every order.
NextConc ==
    \E c \in Callers :
        \/ \E a \in ConcMetalCalls : CallMetalDiff(c, a[1], a[2], a[3], a[4])
        \/ RangeStep(c)
        \/ DirectStep(c)
        \/ FallbackStep(c)
        \/ \E a \in ConcGasCalls : CallDiffGas(c, a[1], a[2], a[3], a[4])
        \/ GasStep(c)

SpecConc == Init /\ [][NextConc]_vars

(***************************************************************************)
(* Properties.  The expected values are written from the reference tables  *)
(* (the literals of the source), not from the calls' steps.                *)
(***************************************************************************)
Ref == MetalDiffTables

RefGas == DiffGasTables

\* Caller c has finished a call of fn.
Finished(c, fn) == frames[c].fn = fn /\ frames[c].pc = "done"

\* The alloy is in the temperature-range tables.
Supported(A) == A \in DOMAIN Ref.T_min /\ A \in DOMAIN Ref.T_max

\* (A, Q) has a direct entry in the coefficient tables.
Tabulated(A, Q) ==
    /\ A \in DOMAIN Ref.D0 /\ Q \in DOMAIN Ref.D0[A]
    /\ A \in DOMAIN Ref.Ea /\ Q \in DOMAIN Ref.Ea[A]

\* D0[A][Q]*exp(-Ea[A][Q]*1000/(R*T)) from the direct entry.
DirectValue(A, Q, T) ==
    [via |-> "direct", d0 |-> Ref.D0[A][Q], ea |-> Ref.Ea[A][Q], T |-> T]

\* The number of warning lines caller c has printed.
Warnings(c) == Cardinality({i \in 1..Len(console) : console[i].caller = c})

\* The events of a log, as a set.
Events(log) == {log[i] : i \in 1..Len(log)}

\* C1: for every directly tabulated (A, Q), every T and either W, MetalDiff
\* returns D0[A][Q]*exp(-Ea[A][Q]*1000/(R*T)) computed from the direct entry:
\* never a value of the Graham's-law branch, never an error.
C1_DirectEntryAnyT ==
    \A c \in Callers :
        LET f == frames[c] IN
        (Finished(c, "MetalDiff") /\ Supported(f.A) /\ Tabulated(f.A, f.Q))
            => /\ f.out = Return(DirectValue(f.A, f.Q, f.T))
               /\ "fallback" \notin Events(f.log)

\* C2 as amended: for every supported alloy A, every Q with no direct entry
\* under A but present in M, and every T > 0, MetalDiff returns
\* D_H*sqrt(M['H']/M[Q]), D_H being what MetalDiff(A, 'H', T, W) returns,
\* D0[A]['H']*exp(-Ea[A]['H']*1000/(R*T)).
C2_GrahamFallback ==
    \A c \in Callers :
        LET f == frames[c]
            h == MetalDiff(f.A, "H", f.T, f.W).out
        IN  ( /\ Finished(c, "MetalDiff") /\ Supported(f.A)
              /\ ~Tabulated(f.A, f.Q) /\ f.Q \in DOMAIN Ref.M
              /\ f.T > 0 )
            => /\ h = Return(DirectValue(f.A, "H", f.T))
               /\ f.out = Return([ via |-> "graham", D_H |-> h.val,
                                   mH |-> Ref.M["H"], mQ |-> Ref.M[f.Q] ])

\* C2 as stated: the same for every temperature T.
C2_GrahamFallbackAnyT ==
    \A c \in Callers :
        LET f == frames[c]
            h == MetalDiff(f.A, "H", f.T, f.W).out
        IN  ( /\ Finished(c, "MetalDiff") /\ Supported(f.A)
              /\ ~Tabulated(f.A, f.Q) /\ f.Q \in DOMAIN Ref.M )
            => /\ h = Return(DirectValue(f.A, "H", f.T))
               /\ f.out = Return([ via |-> "graham", D_H |-> h.val,
                                   mH |-> Ref.M["H"], mQ |-> Ref.M[f.Q] ])

\* A fallback estimate: 'SS304' has only 'H', 'He' is in M.
C2_Witness ==
    \E c \in Callers :
        /\ Finished(c, "MetalDiff")
        /\ frames[c].A = "SS304" /\ frames[c].Q = "He" /\ frames[c].T = 700
        /\ frames[c].out.kind = "return"
        /\ frames[c].out.val.via = "graham"

\* C3: a call with an alloy absent from the range tables ends in the
\* unsupported-alloy error at its first step (nothing printed, no coefficient
\* lookup, no other error), whatever Q, T and W; and that error is raised
\* nowhere after the range lookup has succeeded.
C3_UnsupportedAlloyFirst ==
    \A c \in Callers :
        LET f == frames[c] IN
        (f.fn = "MetalDiff" /\ f.pc # "range")
            => /\ ~Supported(f.A) =>
                    /\ f.pc = "done"
                    /\ f.out = UnsupportedAlloy
                    /\ f.log = <<"range">>
                    /\ Warnings(c) = 0
               /\ f.out = UnsupportedAlloy =>
                    /\ ~Supported(f.A)
                    /\ f.log = <<"range">>

\* An unknown alloy with an unknown isotope, the warning enabled and a
\* temperature that no range holds.
C3_Witness ==
    \E c \in Callers :
        /\ Finished(c, "MetalDiff")
        /\ frames[c].A = "UnknownAlloy" /\ frames[c].Q = "X"
        /\ frames[c].T = 0 /\ frames[c].W
        /\ frames[c].out = UnsupportedAlloy

\* C4 as amended: for every supported alloy and every T > 0, the call fails
\* with the unsupported-isotope error if and only if Q has no direct entry
\* under A and is absent from M; in every other case it returns a value.
C4_UnsupportedIsotopeIff ==
    \A c \in Callers :
        LET f == frames[c] IN
        (Finished(c, "MetalDiff") /\ Supported(f.A) /\ f.T > 0)
            => /\ f.out = UnsupportedIsotope
                    <=> (~Tabulated(f.A, f.Q) /\ f.Q \notin DOMAIN Ref.M)
               /\ f.out # UnsupportedIsotope => f.out.kind = "return"
               /\ f.out = UnsupportedIsotope => f.out.val = NoVal

\* C4 as stated: the same for every temperature T.
C4_UnsupportedIsotopeIffAnyT ==
    \A c \in Callers :
        LET f == frames[c] IN
        (Finished(c, "MetalDiff") /\ Supported(f.A))
            => /\ f.out = UnsupportedIsotope
                    <=> (~Tabulated(f.A, f.Q) /\ f.Q \notin DOMAIN Ref.M)
               /\ f.out # UnsupportedIsotope => f.out.kind = "return"
               /\ f.out = UnsupportedIsotope => f.out.val = NoVal

\* An isotope that is neither tabulated nor in M, at a positive temperature.
C4_Witness ==
    \E c \in Callers :
        /\ Finished(c, "MetalDiff")
        /\ frames[c].A = "SS304" /\ frames[c].Q = "X" /\ frames[c].T = 700
        /\ frames[c].out = UnsupportedIsotope

\* A species is missing from the molar-mass or the diffusion-volume table.
GasMissing(A, B) ==
    \/ A \notin DOMAIN RefGas.M \/ A \notin DOMAIN RefGas.SIGMA_v
    \/ B \notin DOMAIN RefGas.M \/ B \notin DOMAIN RefGas.SIGMA_v

\* The operands of the Fuller value of (A, B, T, P).
FullerValue(A, B, T, P) ==
    [ via |-> "fuller", K |-> 101325, T |-> T, P |-> P,
      invM |-> FAdd(RefGas.M[A], RefGas.M[B]),
      cbrt |-> FAdd(RefGas.SIGMA_v[A], RefGas.SIGMA_v[B]) ]

WarningDue(A, T, W) ==
    /\ Supported(A)
    /\ W
    /\ (T < Ref.T_min[A] \/ T > Ref.T_max[A])

\* C6: a call of MetalDiff prints the warning exactly once if and only if the
\* alloy is supported, W is set and T < T_min[A] or T > T_max[A]; nothing is
\* printed before the range step; the line is printed before any coefficient
\* lookup and the call goes on after it, whatever Q and whatever the call
\* ends in.
C6_WarningExactlyWhenOutOfRange ==
    \A c \in Callers :
        LET f == frames[c] IN
        f.fn = "MetalDiff"
            => /\ f.pc = "range" => (Warnings(c) = 0 /\ f.log = <<>>)
               /\ f.pc # "range" =>
                    IF WarningDue(f.A, f.T, f.W)
                    THEN /\ Warnings(c) = 1
                         /\ Len(f.log) >= 2
                         /\ f.log[1] = "range" /\ f.log[2] = "warn"
                         /\ f.pc = "done" =>
                                (Len(f.log) >= 3 /\ f.out # UnsupportedAlloy)
                    ELSE /\ Warnings(c) = 0
                         /\ "warn" \notin Events(f.log)

\* The warned call of the specification: 'SS304' at 1000 K, above 945 K,
\* returns a value after one warning line.
C6_Witness ==
    \E c \in Callers :
        /\ Finished(c, "MetalDiff")
        /\ frames[c].A = "SS304" /\ frames[c].Q = "H"
        /\ frames[c].T = 1000 /\ frames[c].W
        /\ frames[c].out.kind = "return"
        /\ Warnings(c) = 1
        /\ console[1] = [caller |-> c, lo |-> 645, hi |-> 945]

\* C7: the outcome of a finished call of MetalDiff is the outcome of the
\* call with the same A, Q, T and the opposite W.
C7_WarningFlagNeutral ==
    \A c \in Callers :
        LET f == frames[c] IN
        Finished(c, "MetalDiff")
            => f.out = MetalDiff(f.A, f.Q, f.T, ~f.W).out

\* A call that printed the warning and returned a value.
C7_Witness ==
    \E c \in Callers :
        /\ Finished(c, "MetalDiff")
        /\ frames[c].W /\ Warnings(c) = 1
        /\ frames[c].out.kind = "return"
        /\ MetalDiff(frames[c].A, frames[c].Q, frames[c].T, FALSE).warned = FALSE

\* The arguments of caller c's call.
Args(c) ==
    LET f == frames[c] IN <<f.fn, f.A, f.Q, f.B, f.T, f.P, f.W>>

\* The outcome of caller c's call made alone.
Alone(c) ==
    LET f == frames[c] IN
    IF f.fn = "MetalDiff" THEN MetalDiff(f.A, f.Q, f.T, f.W).out
    ELSE DiffGas_AB(f.A, f.B, f.T, f.P)

\* C8: in every interleaving of concurrent calls no reference table changes,
\* every finished call has the outcome of that call made alone, and two
\* finished calls with identical arguments have identical outcomes.
C8_OutcomeDependsOnArgumentsOnly ==
    /\ tabs = [metal |-> MetalDiffTables, gas |-> DiffGasTables]
    /\ \A c \in Callers :
           frames[c].pc = "done" => frames[c].out = Alone(c)
    /\ \A c, d \in Callers :
           (frames[c].pc = "done" /\ frames[d].pc = "done" /\ Args(c) = Args(d))
               => frames[c].out = frames[d].out

\* Two callers have finished the same warned fallback call, and both
\* warning lines are on the console.
C8_Witness ==
    \E c, d \in Callers :
        /\ c # d
        /\ Finished(c, "MetalDiff") /\ Finished(d, "MetalDiff")
        /\ Args(c) = Args(d)
        /\ frames[c].out.kind = "return" /\ frames[c].out.val.via = "graham"
        /\ Warnings(c) = 1 /\ Warnings(d) = 1

\* C9: in every state the pairs of D0 are the pairs of Ea, and every alloy of
\* D0 or Ea has an entry in T_min and in T_max.
C9_TablesConsistent ==
    LET t == tabs.metal IN
    /\ DOMAIN t.D0 = DOMAIN t.Ea
    /\ \A A \in DOMAIN t.D0 : DOMAIN t.D0[A] = DOMAIN t.Ea[A]
    /\ \A A \in DOMAIN t.D0 \cup DOMAIN t.Ea :
           A \in DOMAIN t.T_min /\ A \in DOMAIN t.T_max

\* A call has read the entry of ('OPTIFER-IVb', 'T') from both tables.
C9_Witness ==
    \E c \in Callers :
        /\ Finished(c, "MetalDiff")
        /\ frames[c].A = "OPTIFER-IVb" /\ frames[c].Q = "T"
        /\ frames[c].out = Return([via |-> "direct", d0 |-> 417, ea |-> 1200,
                                   T |-> frames[c].T])

\* C10: the outcome of a finished call DiffGas_AB(A, B, T, P) is the outcome
\* of DiffGas_AB(B, A, T, P).
C10_Symmetric ==
    \A c \in Callers :
        LET f == frames[c] IN
        Finished(c, "DiffGas_AB")
            => f.out = DiffGas_AB(f.B, f.A, f.T, f.P)

\* Two different supported species and a returned value.
C10_Witness ==
    \E c \in Callers :
        /\ Finished(c, "DiffGas_AB")
        /\ frames[c].A = "H2" /\ frames[c].B = "Air"
        /\ frames[c].out.kind = "return"

====
